---- MODULE Spec2Model ----
(***************************************************************************)
(* Download engine of kiko-trainer: the session registry of                *)
(* backend/server.py (downloads, cancel_tokens, download_files), the two   *)
(* execution tasks download_civitai_model / download_huggingface_file,     *)
(* and CivitAIDownloader.download_model of backend/civitai_downloader.py.  *)
(*                                                                         *)
(* All coroutines run on one asyncio event loop.  An action of this module *)
(* is the code one coroutine executes between two points where it really   *)
(* suspends (aiofiles open/write/close, aiohttp get / iter_chunked, httpx  *)
(* get): the blocking urllib calls and the awaits of the non-suspending    *)
(* progress callback do not let any other coroutine or handler run.        *)
(*                                                                         *)
(* Sizes are counted in model bytes: the remote artifact is the sequence   *)
(* 1..TotalBytes, a read returns at most ChunkBytes of them.  Progress is  *)
(* kept in tenths of a percent (round(x, 1) of the source).                *)
(*                                                                         *)
(* Two further parts have specifications of their own: the training runs   *)
(* of backend/server.py (api_train_start, api_train_stop and the           *)
(* _stream_process reader thread, SpecTrain) and the metrics stream of     *)
(* backend/tensorboard_metrics.py (stream_metrics, SpecMetrics).           *)
(***************************************************************************)
EXTENDS Integers, Sequences, FiniteSets, TLC

TotalBytes == 3
ChunkBytes == 2

DownloadIds == {"d1", "d2"}

OutputPaths == {"models/a", "models/b"}

(* the output path named by the request that is given uuid id, when every  *)
(* request names a path of its own                                         *)
OwnPath(id) == IF id = "d1" THEN "models/a" ELSE "models/b"

MAX_RETRIES == 3

RunIds == {"r1", "r2"}

(* the number of steps a training run logs at most *)
MaxSteps == 12

(* stream_metrics asks for get_recent_metrics(limit=10) *)
limit == 10

VARIABLES downloads, cancel_tokens, download_files, fs, sidecars, task, response, uuids,
          stream, RUNS, procs, threads, logged, tb

(* the training runs: the RUNS table, the operating system's processes and *)
(* the threads of the server working on them                               *)
train_vars == <<RUNS, procs, threads>>

(* the scalars a training run has logged and one metrics stream over them *)
tb_vars == <<logged, tb>>

vars == <<downloads, cancel_tokens, download_files, fs, sidecars, task, response, uuids,
          stream, train_vars, tb_vars>>

----------------------------------------------------------------------------
(* Values *)

Min(a, b) == IF a < b THEN a ELSE b

Remote == [i \in 1..TotalBytes |-> i]

Prefix(seq, n) == SubSeq(seq, 1, n)

Drop(seq, n) == SubSeq(seq, n + 1, Len(seq))

NoFile == [exists |-> FALSE, data |-> <<>>]

File(data) == [exists |-> TRUE, data |-> data]

PartialFiles == {NoFile} \cup {File(Prefix(Remote, k)) : k \in 0..TotalBytes}

(* pwrite of bytes at offset; a gap past the end of the file reads as 0 *)
write_at(data, offset, bytes) ==
    [i \in 1..(IF Len(data) > offset + Len(bytes) THEN Len(data) ELSE offset + Len(bytes)) |->
        IF i > offset /\ i <= offset + Len(bytes) THEN bytes[i - offset]
        ELSE IF i <= Len(data) THEN data[i] ELSE 0]

(* f.write(chunk) on a descriptor opened 'ab' (O_APPEND) or 'wb' (own      *)
(* offset).  After an unlink of the path the bytes go to the orphaned      *)
(* inode and the path stays absent.                                        *)
write_chunk(file, mode, offset, bytes) ==
    IF ~file.exists THEN file
    ELSE IF mode = "ab" THEN File(file.data \o bytes)
    ELSE File(write_at(file.data, offset, bytes))

ValidationOutcomes == {"valid", "header", "digest"}

(* events of the progress stream: status and progress of a record, or the  *)
(* 'Download not found' message                                            *)
NoEvent == [status |-> "", progress |-> -1, message |-> ""]

NotFoundEvent == [status |-> "error", progress |-> -1, message |-> "Download not found"]

DataEvent(status, progress) == [status |-> status, progress |-> progress, message |-> ""]

(* event_generator: position, last_progress, what the latest iteration     *)
(* read from the record (seen), the event it yielded last (event), and the *)
(* status left in the dict it holds once that dict is out of the table     *)
NoStream == [id |-> "none", pc |-> "idle", last_progress |-> -1,
             seen |-> NoEvent, event |-> NoEvent, held |-> ""]

HttpStatuses == {200, 302, 401, 403, 404, 429, 500}

NoErr == [msg |-> "", code |-> 0]

Err(msg, code) == [msg |-> msg, code |-> code]

KeyError == Err("KeyError", 0)

CancelledByUser == Err("Download cancelled by user", 0)

Statuses == {"pending", "downloading", "resuming", "cancelling",
             "completed", "error", "cancelled"}

Terminal == {"completed", "error", "cancelled"}

NoTask == [kind |-> "none", pc |-> "none", url |-> "none", output_path |-> "none",
           cancel_event |-> FALSE, validation |-> "none",
           file_path |-> FALSE, total_size |-> 0, resume_pos |-> 0,
           resume_status |-> 0, mode |-> "", downloaded |-> 0,
           body |-> <<>>, wire |-> <<>>, exc |-> NoErr, attempts |-> 0]

(* round(num / den * 100, 1), in tenths of a percent *)
RoundTenths(num, den) == (2000 * num + den) \div (2 * den)

----------------------------------------------------------------------------
(* Registry helpers *)

Registered(id) == id \in DOMAIN downloads

(* the file at the output path of session id *)
FileOf(id) == fs[task[id].output_path]

SetFields(id, rec) ==
    [downloads EXCEPT ![id] = [f \in DOMAIN downloads[id] |->
                                  IF f \in DOMAIN rec THEN rec[f] ELSE downloads[id][f]]]

Remove(table, id) == [x \in (DOMAIN table) \ {id} |-> table[x]]

(* exit codes of the training script: success, failure, killed by SIGTERM *)
ReturnCodes == {0, 1, -15}

(* f"error:{code}" *)
ErrorStatus(code) == IF code = 1 THEN "error:1" ELSE "error:-15"

(* api_train_prepare: the record of a prepared run (no "proc" key yet) *)
PreparedRun == [status |-> "prepared", proc |-> FALSE]

NoProcess == [state |-> "none", signalled |-> FALSE, returncode |-> 0]

(* every run has been prepared; nothing is started *)
InitRuns ==
    /\ RUNS = [r \in RunIds |-> PreparedRun]
    /\ procs = [r \in RunIds |-> NoProcess]
    /\ threads = [r \in RunIds |-> [reader |-> "none", stop |-> "idle"]]

(* the steps 0 .. n-1 a run has logged, in the order of their step number *)
Steps(n) == [i \in 1..n |-> i - 1]

(* a stream_metrics generator that has not run yet: _ea is None (-1),     *)
(* last_step = -1                                                          *)
NoMetricsStream == [pc |-> "start", ea |-> -1, last_step |-> -1,
                    new_metrics |-> <<>>, emitted |-> <<>>]

(* nothing is logged yet, and the client's stream has not been iterated *)
InitMetrics ==
    /\ logged = 0
    /\ tb = NoMetricsStream

(* The registry tables are empty at start-up.  One download is submitted   *)
(* per run; requests may also name an id that was never issued (answered   *)
(* 404).  fs maps an output path to the file found there, sidecars an     *)
(* output path to the integrity record written next to it.                 *)
Init ==
    /\ downloads = [x \in {} |-> 0]
    /\ cancel_tokens = {}
    /\ download_files = {}
    /\ fs = [p \in OutputPaths |-> NoFile]
    /\ sidecars = [x \in {} |-> 0]
    /\ task = [id \in DownloadIds |-> NoTask]
    /\ response = [op |-> "none", id |-> "none", code |-> 0, ack |-> ""]
    /\ uuids = {"d1"}
    /\ stream = NoStream
    /\ InitRuns
    /\ InitMetrics

----------------------------------------------------------------------------
(* CivitAIDownloader.download_model, up to the open of the output file *)

(* "api": a direct link /api/download/models/<number>; "version", "model":  *)
(* a civitai.com page with a modelVersionId or a model id; "unparsable": a *)
(* civitai.com page with neither; "external": a URL download_model does    *)
(* not convert and in which no id is found, i.e. a URL of another host or  *)
(* a direct link whose id is not a number.                                 *)
UrlKinds == {"api", "external", "version", "model", "unparsable"}

DetailsOutcomes == {"ok", "no_versions", "http_error"}

(* convert_url without the final else: a URL without ids is used as it is *)
convert_url_unchecked(url, details) ==
    CASE url = "model" -> IF details = "ok" THEN NoErr
                          ELSE Err("Failed to get model details", 0)
      [] OTHER -> NoErr

(* lines 93-110: web URL to API URL *)
convert_url(url, details) ==
    CASE url \in {"api", "external", "version"} -> NoErr
      [] url = "model" -> IF details = "ok" THEN NoErr
                          ELSE Err("Failed to get model details", 0)
      [] OTHER -> Err("Could not parse model or version ID from URL", 0)

(* lines 123-133: the handler of urllib.error.HTTPError around opener.open *)
http_error_message(code) ==
    CASE code = 401 -> Err("Authentication required", code)
      [] code = 403 -> Err("Access forbidden", code)
      [] code = 404 -> Err("Model not found", code)
      [] code = 429 -> Err("Rate limited", code)
      [] OTHER -> Err("HTTP error", code)

(* lines 113-119: the opener built with NoRedirection.  NoRedirection      *)
(* replaces HTTPErrorProcessor, the handler that turns a non-2xx response  *)
(* into HTTPError, so every status comes back as a plain response; answer  *)
(* 0 is a connection failure, raised as URLError (not an HTTPError).       *)
opener_open(answer) ==
    IF answer = 0
    THEN [status |-> 0, http_error |-> FALSE, exc |-> Err("urlopen error", 0)]
    ELSE [status |-> answer, http_error |-> FALSE, exc |-> NoErr]

(* urllib.request.urlopen with the default opener (lines 161, 192, 203):   *)
(* a 2xx answer is a response, any other final status raises HTTPError.    *)
urlopen(answer) ==
    IF answer \in {200, 206}
    THEN [status |-> answer, exc |-> NoErr]
    ELSE IF answer = 0 THEN [status |-> 0, exc |-> Err("urlopen error", 0)]
    ELSE [status |-> answer, exc |-> Err("HTTP Error", answer)]

(* lines 121-165: first request and manual redirect *)
first_request(first, redirect) ==
    LET r == opener_open(first) IN
    IF r.exc # NoErr
    THEN IF r.http_error THEN http_error_message(r.status) ELSE r.exc
    ELSE IF r.status \in {301, 302, 303, 307, 308} THEN urlopen(redirect).exc
    ELSE IF r.status = 404 THEN Err("File not found", 404)
    ELSE IF r.status # 200 THEN Err("Download failed with status", r.status)
    ELSE NoErr

(* open_mode with the append case lost: the file is always truncated *)
open_mode_truncating(resume_pos) == "wb"

(* line 206 *)
open_mode(resume_pos) == IF resume_pos > 0 THEN "ab" ELSE "wb"

(* lines 180-203: resume_pos, the range request and its fallback.  ra is   *)
(* the answer to the range request, fr the answer to the fresh request     *)
(* sent when the range request raised.                                     *)
resume_check(file, total_size, ra, fr) ==
    LET size == IF file.exists THEN Len(file.data) ELSE 0 IN
    IF size > 0 /\ total_size # 0 /\ size < total_size
    THEN LET r == urlopen(ra) IN
         IF r.exc = NoErr
         THEN [resume_pos |-> size, resume_status |-> r.status,
               resuming |-> (r.status = 206),
               body |-> IF r.status = 206 THEN Drop(Remote, size) ELSE Remote,
               exc |-> NoErr]
         ELSE [resume_pos |-> 0, resume_status |-> ra, resuming |-> FALSE,
               body |-> Remote, exc |-> urlopen(fr).exc]
    ELSE [resume_pos |-> size, resume_status |-> 0, resuming |-> FALSE,
          body |-> Remote, exc |-> NoErr]

(* lines 93-211 as one computation: the result of the synchronous part of  *)
(* download_model for the given URL, server answers and existing file.     *)
download_model_prepare(url, details, first, redirect, cl, ra, fr, file) ==
    LET e1 == convert_url(url, details)
        e2 == IF e1 # NoErr THEN e1 ELSE first_request(first, redirect)
        total == IF cl THEN TotalBytes ELSE 0
        rc == resume_check(file, total, ra, fr)
        e3 == IF e2 # NoErr THEN e2 ELSE rc.exc
    IN  [exc |-> e3,
         requested |-> (e1 = NoErr),
         total_size |-> IF e2 = NoErr THEN total ELSE 0,
         resume_pos |-> IF e2 = NoErr THEN rc.resume_pos ELSE 0,
         resume_status |-> IF e2 = NoErr THEN rc.resume_status ELSE 0,
         resuming |-> (e3 = NoErr /\ rc.resuming),
         body |-> IF e3 = NoErr THEN rc.body ELSE <<>>,
         mode |-> IF e3 = NoErr THEN open_mode(rc.resume_pos) ELSE ""]

(* an open that truncates in either mode *)
open_file_truncating(file, mode) == File(<<>>)

(* aiofiles.open(output_file, mode), line 211 *)
open_file(file, mode) ==
    IF mode = "wb" THEN File(<<>>)
    ELSE IF file.exists THEN file ELSE File(<<>>)

----------------------------------------------------------------------------
(* download_civitai_model: exception handlers and finally block *)

ContainsCancelled(e) == e.msg = "Download cancelled by user"

ContainsParse(e) == e.msg = "Could not parse model or version ID from URL"

(* str(HTTPError(401)) is "HTTP Error 401: Unauthorized" *)
ContainsUnauthorized(e) == e.msg = "HTTP Error" /\ e.code = 401

(* civitai_error_cleanup that removes the file on every failure *)
civitai_error_cleanup_always(file_path, file, e) ==
    IF file.exists THEN NoFile ELSE file

(* lines 853-860: which file the handler leaves behind *)
civitai_error_cleanup(file_path, file, e) ==
    IF file_path /\ file.exists /\ ~ContainsCancelled(e)
       /\ (ContainsParse(e) \/ ContainsUnauthorized(e))
    THEN NoFile ELSE file

(* lines 847-867: except Exception, then finally.  A session whose record  *)
(* was deleted raises KeyError inside the handler; only finally runs.      *)
civitai_fail(id, e, t) ==
    /\ downloads' = IF Registered(id)
                    THEN SetFields(id, [status |-> "error", error |-> e])
                    ELSE downloads
    /\ fs' = IF Registered(id)
             THEN [fs EXCEPT ![task[id].output_path] = civitai_error_cleanup(t.file_path, FileOf(id), e)]
             ELSE fs
    /\ download_files' = download_files \ {id}
    /\ cancel_tokens' = cancel_tokens \ {id}
    /\ task' = [task EXCEPT ![id] = [t EXCEPT !.pc = "done", !.exc = e]]
    /\ UNCHANGED <<sidecars, response, uuids, stream, train_vars, tb_vars>>

(* the start of a task that leaves the status as the request set it *)
mark_downloading_skipped(id) == downloads

(* server.py lines 730 and 912 *)
mark_downloading(id) == SetFields(id, [status |-> "downloading"])

(* lines 725-757 with download_model lines 93-211: from the start of the   *)
(* background task to the suspension in aiofiles.open.                     *)
download_civitai_model_start(id) ==
    /\ task[id].kind = "civitai" /\ task[id].pc = "queued"
    /\ IF ~Registered(id)
       THEN civitai_fail(id, KeyError, task[id])
       ELSE \E url \in UrlKinds, details \in DetailsOutcomes,
               first \in HttpStatuses \cup {0}, redirect \in {200, 401, 500, 0},
               cl \in BOOLEAN, ra \in {206, 200, 416, 0}, fr \in {200, 500} :
            LET r == download_model_prepare(url, details, first, redirect, cl, ra, fr, FileOf(id))
                t == [task[id] EXCEPT !.url = url,
                                      !.attempts = IF r.requested THEN 1 ELSE 0,
                                      !.total_size = r.total_size,
                                      !.resume_pos = r.resume_pos,
                                      !.resume_status = r.resume_status,
                                      !.mode = r.mode,
                                      !.downloaded = r.resume_pos,
                                      !.body = r.body]
            IN  IF r.exc # NoErr
                THEN civitai_fail(id, r.exc, t)
                ELSE /\ downloads' =
                          IF r.resuming
                          THEN SetFields(id, [status |-> "resuming",
                                 progress |-> RoundTenths(r.resume_pos, r.total_size)])
                          ELSE mark_downloading(id)
                     /\ cancel_tokens' = cancel_tokens \cup {id}
                     /\ fs' = [fs EXCEPT ![task[id].output_path] = open_file(FileOf(id), r.mode)]
                     /\ task' = [task EXCEPT ![id] = [t EXCEPT !.pc = "open"]]
                     /\ UNCHANGED <<download_files, sidecars, response, uuids, stream, train_vars, tb_vars>>

(* a cancellation check that never finds the token set *)
cancel_requested_never(t) == FALSE

(* civitai_downloader.py line 219 and server.py line 938 *)
cancel_requested(t) == t.cancel_event

(* a callback that publishes the share still to be transferred *)
progress_callback_remaining(id, downloaded, total_size) ==
    SetFields(id, [progress |-> IF total_size # 0
                                THEN RoundTenths(total_size - downloaded, total_size) ELSE 0])

(* progress_callback, branch status == 'downloading' (lines 737-742) *)
progress_callback_downloading(id, downloaded, total_size) ==
    SetFields(id, [progress |-> IF total_size # 0
                                THEN RoundTenths(downloaded, total_size) ELSE 0])

(* download_model lines 217-251: resumed after aiofiles.open or f.write;   *)
(* throttled progress update for the chunk just written, cancellation      *)
(* check, read of the next chunk, and suspension in f.write.  n = -1 is a  *)
(* read that raises, n = 0 an empty read (end of body, or the server       *)
(* closed the connection early).                                           *)
download_model_chunk(id) ==
    /\ task[id].kind = "civitai" /\ task[id].pc \in {"open", "write"}
    /\ \E due \in BOOLEAN, n \in -1..ChunkBytes :
         LET t == task[id]
             report == t.pc = "write" /\ due
             stop(e) == [t EXCEPT !.pc = "close", !.exc = e]
         IN  /\ n <= Len(t.body)
             /\ (due => t.pc = "write")
             /\ UNCHANGED <<cancel_tokens, download_files, sidecars, response, uuids, stream, train_vars, tb_vars>>
             /\ IF report /\ ~Registered(id)
                THEN /\ task' = [task EXCEPT ![id] = stop(KeyError)]
                     /\ UNCHANGED <<downloads, fs>>
                ELSE /\ downloads' = IF report
                                     THEN progress_callback_downloading(id, t.downloaded, t.total_size)
                                     ELSE downloads
                     /\ IF cancel_requested(t)
                        THEN /\ task' = [task EXCEPT ![id] = stop(CancelledByUser)]
                             /\ fs' = fs
                        ELSE IF n = -1
                        THEN /\ task' = [task EXCEPT ![id] = stop(Err("read error", 0))]
                             /\ fs' = fs
                        ELSE IF n = 0
                        THEN /\ task' = [task EXCEPT ![id] = stop(NoErr)]
                             /\ fs' = fs
                        ELSE /\ task' = [task EXCEPT ![id] =
                                  [t EXCEPT !.pc = "write",
                                            !.downloaded = t.downloaded + n,
                                            !.body = Drop(t.body, n),
                                            !.wire = t.wire \o Prefix(t.body, n)]]
                             /\ fs' = [fs EXCEPT ![task[id].output_path] =
                                  write_chunk(FileOf(id), t.mode, t.downloaded,
                                              Prefix(t.body, n))]

(* verify_download without the size comparison *)
verify_download_unchecked(file, total_size) ==
    IF ~file.exists THEN Err("FileNotFoundError", 0) ELSE NoErr

(* download_model lines 255-258 *)
verify_download(file, total_size) ==
    IF ~file.exists THEN Err("FileNotFoundError", 0)
    ELSE IF total_size # 0 /\ Len(file.data) # total_size
    THEN Err("Download incomplete", 0)
    ELSE NoErr

(* what _validate_model_file meets: v is the outcome on a file that can be *)
(* read ("header": safe_open raises, "digest": _compute_sha256 raises); a  *)
(* file that is gone fails in _compute_sha256.                             *)
validation_outcome(file, v) == IF file.exists THEN v ELSE "digest"

(* _validate_model_file whose safetensors handler leaves the result as it  *)
(* was initialised                                                         *)
validate_model_file_lenient(outcome) ==
    CASE outcome \in {"valid", "header"} -> [ok |-> TRUE, error |-> "", sha256 |-> TRUE]
      [] OTHER -> [ok |-> FALSE, error |-> "validate failed", sha256 |-> FALSE]

(* lines 1727-1748 *)
validate_model_file(outcome) ==
    CASE outcome = "valid" -> [ok |-> TRUE, error |-> "", sha256 |-> TRUE]
      [] outcome = "header" -> [ok |-> FALSE, error |-> "safetensors error", sha256 |-> TRUE]
      [] OTHER -> [ok |-> FALSE, error |-> "validate failed", sha256 |-> FALSE]

(* lines 1750-1756 *)
save_integrity_sidecar(path, integ) == (path :> integ) @@ sidecars

(* server.py lines 768-839 and 862-867: preview and metadata, integrity    *)
(* sidecar, then the finally block.  An exception of the preview lookup is *)
(* caught by the outer handler (line 838), which skips the integrity step. *)
civitai_post(id, t, files, preview, v) ==
    LET outcome == validation_outcome(FileOf(id), v) IN
    /\ sidecars' = IF preview = "raises" THEN sidecars
                   ELSE save_integrity_sidecar(t.output_path, validate_model_file(outcome))
    /\ download_files' = files \ {id}
    /\ cancel_tokens' = cancel_tokens \ {id}
    /\ task' = [task EXCEPT ![id] =
                  [t EXCEPT !.pc = "done",
                            !.validation = IF preview = "raises" THEN "none" ELSE outcome]]

(* The version lookup (client.get) is sent only when the URL carries ids *)
PreviewOutcomes(url) ==
    IF url = "external" THEN {"none"} ELSE {"none", "saved", "raises"}

(* download_model lines 252-268 and server.py lines 759-766: resumed after *)
(* f.close(); size check, 'completed' callback, completion bookkeeping.    *)
download_model_finish(id) ==
    /\ task[id].kind = "civitai" /\ task[id].pc = "close"
    /\ LET t == task[id]
           e == IF t.exc # NoErr THEN t.exc
                ELSE IF verify_download(FileOf(id), t.total_size) # NoErr
                THEN verify_download(FileOf(id), t.total_size)
                ELSE IF ~Registered(id) THEN KeyError ELSE NoErr
       IN  IF e # NoErr
           THEN civitai_fail(id, e, t)
           ELSE /\ downloads' = SetFields(id, [status |-> "completed",
                                               progress |-> 1000, file_path |-> TRUE])
                /\ UNCHANGED <<fs, response, uuids, stream, train_vars, tb_vars>>
                /\ IF t.url = "external"
                   THEN \E v \in ValidationOutcomes :
                          civitai_post(id, [t EXCEPT !.file_path = TRUE],
                                       download_files \cup {id}, "none", v)
                   ELSE /\ download_files' = download_files \cup {id}
                        /\ task' = [task EXCEPT ![id] =
                                      [t EXCEPT !.pc = "post", !.file_path = TRUE]]
                        /\ UNCHANGED <<cancel_tokens, sidecars>>

(* server.py lines 787-839, 862-867: resumed after the preview lookup *)
download_civitai_model_post(id) ==
    /\ task[id].kind = "civitai" /\ task[id].pc = "post"
    /\ \E preview \in PreviewOutcomes(task[id].url), v \in ValidationOutcomes :
         civitai_post(id, task[id], download_files, preview, v)
    /\ UNCHANGED <<downloads, fs, response, uuids, stream, train_vars, tb_vars>>

----------------------------------------------------------------------------
(* download_huggingface_file *)

(* lines 977-990: finally block; the integrity sidecar is written for any  *)
(* file still present at file_path.                                        *)
hf_finally(id, t, file, v) ==
    /\ cancel_tokens' = cancel_tokens \ {id}
    /\ download_files' = download_files \ {id}
    /\ sidecars' = IF t.file_path /\ file.exists
                   THEN save_integrity_sidecar(t.output_path, validate_model_file(v))
                   ELSE sidecars

(* the outcome the finally block recorded, if it validated at all *)
hf_validation(t, file, v) == IF t.file_path /\ file.exists THEN v ELSE "none"

(* lines 967-968 and 974-975 *)
hf_unlink(file_path, file) == IF file_path /\ file.exists THEN NoFile ELSE file

(* lines 963-975 then finally: the handler of CancelledError (status       *)
(* 'cancelled') or of Exception (status 'error'), applied to the file as   *)
(* the try block left it.  Without a record the handler raises KeyError    *)
(* before it unlinks.                                                      *)
hf_except(id, status, e, t, file, v) ==
    LET after == IF Registered(id) THEN hf_unlink(t.file_path, file) ELSE file IN
    /\ downloads' = IF Registered(id)
                    THEN SetFields(id, [status |-> status, error |-> e])
                    ELSE downloads
    /\ fs' = [fs EXCEPT ![task[id].output_path] = after]
    /\ hf_finally(id, t, after, v)
    /\ task' = [task EXCEPT ![id] = [t EXCEPT !.pc = "done", !.exc = e,
                                              !.validation = hf_validation(t, after, v)]]
    /\ UNCHANGED <<response, uuids, stream, train_vars, tb_vars>>

(* lines 907-918: start of the background task up to the suspension in     *)
(* session.get                                                             *)
download_huggingface_file_start(id) ==
    /\ task[id].kind = "hf" /\ task[id].pc = "queued"
    /\ IF ~Registered(id)
       THEN hf_except(id, "error", KeyError, task[id], FileOf(id), "valid")
       ELSE /\ downloads' = mark_downloading(id)
            /\ cancel_tokens' = cancel_tokens \cup {id}
            /\ task' = [task EXCEPT ![id] = [@ EXCEPT !.pc = "get", !.attempts = 1]]
            /\ UNCHANGED <<download_files, fs, sidecars, response, uuids, stream, train_vars, tb_vars>>

(* lines 918-936: the response arrived; status check, Content-Length,      *)
(* file_path, open(file_path, 'wb'), suspension in iter_chunked.  Answer 0 *)
(* is an aiohttp.ClientError.                                              *)
download_huggingface_file_response(id) ==
    /\ task[id].kind = "hf" /\ task[id].pc = "get"
    /\ \E answer \in {200, 401, 404, 429, 500, 0}, cl \in BOOLEAN, v \in ValidationOutcomes :
         LET t == task[id]
             total == IF cl THEN TotalBytes ELSE 0
         IN  IF answer = 0
             THEN hf_except(id, "error", Err("ClientError", 0), t, FileOf(id), v)
             ELSE IF answer # 200
             THEN hf_except(id, "error", Err("Download failed with status", answer), t, FileOf(id), v)
             ELSE IF ~Registered(id)
             THEN hf_except(id, "error", KeyError,
                            [t EXCEPT !.file_path = ~cl, !.total_size = total], FileOf(id), v)
             ELSE /\ downloads' = SetFields(id, [file_path |-> TRUE])
                  /\ download_files' = download_files \cup {id}
                  /\ fs' = [fs EXCEPT ![task[id].output_path] = File(<<>>)]
                  /\ task' = [task EXCEPT ![id] =
                                [t EXCEPT !.pc = "stream", !.file_path = TRUE,
                                          !.total_size = total, !.mode = "wb",
                                          !.downloaded = 0, !.body = Remote]]
                  /\ UNCHANGED <<cancel_tokens, sidecars, response, uuids, stream, train_vars, tb_vars>>

(* lines 936-947: one iteration of iter_chunked, or its end.  n > 0 is a   *)
(* chunk, n = 0 the end of the body, n = -1 a ClientPayloadError.  With a  *)
(* Content-Length aiohttp ends the body only after that many bytes; fewer  *)
(* bytes raise ClientPayloadError.                                         *)
download_huggingface_file_chunk(id) ==
    /\ task[id].kind = "hf" /\ task[id].pc = "stream"
    /\ \E n \in -1..ChunkBytes, v \in ValidationOutcomes :
         LET t == task[id]
             written == write_chunk(FileOf(id), "wb", t.downloaded, Prefix(t.body, n))
             tw == [t EXCEPT !.downloaded = t.downloaded + n,
                             !.body = Drop(t.body, n),
                             !.wire = t.wire \o Prefix(t.body, n)]
         IN  /\ n <= Len(t.body)
             /\ (n = 0 => (t.body = <<>> \/ t.total_size = 0))
             /\ IF n = -1
                THEN hf_except(id, "error", Err("ClientPayloadError", 0), t, FileOf(id), v)
                ELSE IF n = 0
                THEN IF ~Registered(id)
                     THEN hf_except(id, "error", KeyError, t, FileOf(id), v)
                     ELSE /\ downloads' = SetFields(id, [status |-> "completed",
                                                         progress |-> 1000])
                          /\ fs' = fs
                          /\ hf_finally(id, t, FileOf(id), v)
                          /\ task' = [task EXCEPT ![id] =
                                        [t EXCEPT !.pc = "done",
                                                  !.validation = hf_validation(t, FileOf(id), v)]]
                          /\ UNCHANGED <<response, uuids, stream, train_vars, tb_vars>>
                ELSE IF cancel_requested(t)
                THEN hf_except(id, "cancelled", CancelledByUser, t, FileOf(id), v)
                ELSE IF t.total_size # 0 /\ ~Registered(id)
                THEN hf_except(id, "error", KeyError, tw, written, v)
                ELSE /\ downloads' = IF t.total_size # 0
                                     THEN SetFields(id, [progress |->
                                            RoundTenths(tw.downloaded, t.total_size)])
                                     ELSE downloads
                     /\ fs' = [fs EXCEPT ![task[id].output_path] = written]
                     /\ task' = [task EXCEPT ![id] = tw]
                     /\ UNCHANGED <<cancel_tokens, download_files, sidecars, response, uuids, stream, train_vars, tb_vars>>

----------------------------------------------------------------------------
(* HTTP handlers of the registry *)

NewRecord == [status |-> "pending", progress |-> 0, file_path |-> FALSE, error |-> NoErr]

Reply(op, id, code, ack) == [op |-> op, id |-> id, code |-> code, ack |-> ack]

(* A request takes a fresh uuid (uuids: the identifiers uuid.uuid4() has   *)
(* yet to return).  The file found at an output path that no earlier       *)
(* request of this run named is whatever an earlier run left there.        *)
Submit(id, kind, path) ==
    /\ id \in uuids
    /\ uuids' = uuids \ {id}
    /\ IF \E other \in DownloadIds : task[other].output_path = path
       THEN fs' = fs
       ELSE \E pre \in PartialFiles : fs' = [fs EXCEPT ![path] = pre]
    /\ downloads' = (id :> NewRecord) @@ downloads
    /\ task' = [task EXCEPT ![id] = [NoTask EXCEPT !.kind = kind, !.pc = "queued",
                                                   !.output_path = path]]
    /\ response' = Reply("submit", id, 200, "")
    /\ UNCHANGED <<cancel_tokens, download_files, sidecars, stream, train_vars, tb_vars>>

(* lines 869-903 *)
download_from_civitai(id, path) == Submit(id, "civitai", path)

(* lines 992-1017 *)
download_from_huggingface(id, path) == Submit(id, "hf", path)

(* a cancel endpoint that accepts a session in any status *)
cancellable_anytime(status) == TRUE

(* lines 1310-1311 *)
cancellable(status) == status \in {"pending", "downloading"}

(* lines 1304-1319 *)
cancel_download(id) ==
    /\ UNCHANGED <<download_files, fs, sidecars, uuids, stream, train_vars, tb_vars>>
    /\ IF ~Registered(id)
       THEN /\ response' = Reply("cancel", id, 404, "Download not found")
            /\ UNCHANGED <<downloads, cancel_tokens, task>>
       ELSE IF ~cancellable(downloads[id].status)
       THEN /\ response' = Reply("cancel", id, 400, "Download cannot be cancelled")
            /\ UNCHANGED <<downloads, cancel_tokens, task>>
       ELSE IF id \in cancel_tokens
       THEN /\ task' = [task EXCEPT ![id].cancel_event = TRUE]
            /\ downloads' = SetFields(id, [status |-> "cancelling"])
            /\ response' = Reply("cancel", id, 200, "Cancellation requested")
            /\ UNCHANGED cancel_tokens
       ELSE /\ response' = Reply("cancel", id, 200, "Download already completed or cancelled")
            /\ UNCHANGED <<downloads, cancel_tokens, task>>

(* event_generator keeps the dict it read (download = downloads[id]) over  *)
(* its yield; a dict deleted from the table keeps the status it had.       *)
detach(removed) ==
    IF stream.pc = "yielded" /\ stream.id \in removed
    THEN [stream EXCEPT !.held = downloads[stream.id].status]
    ELSE stream

(* lines 1329-1333 and 548-553 *)
unlink_failed(id, files) ==
    IF downloads[id].file_path /\ downloads[id].status \in {"error", "cancelled"}
    THEN [files EXCEPT ![task[id].output_path] = NoFile] ELSE files

(* lines 1321-1342 *)
delete_download(id) ==
    /\ UNCHANGED <<sidecars, task, uuids, train_vars, tb_vars>>
    /\ IF ~Registered(id)
       THEN /\ response' = Reply("delete", id, 404, "Download not found")
            /\ UNCHANGED <<downloads, cancel_tokens, download_files, fs, stream>>
       ELSE /\ fs' = unlink_failed(id, fs)
            /\ stream' = detach({id})
            /\ downloads' = Remove(downloads, id)
            /\ cancel_tokens' = cancel_tokens \ {id}
            /\ download_files' = download_files \ {id}
            /\ response' = Reply("delete", id, 200, "Download record deleted")

(* lines 540-564 *)
cleanup_failed_downloads ==
    LET cleaned == {id \in DOMAIN downloads : downloads[id].status \in {"error", "cancelled"}} IN
    /\ fs' = [p \in OutputPaths |->
                IF \E id \in cleaned : unlink_failed(id, fs)[p] # fs[p]
                THEN NoFile ELSE fs[p]]
    /\ downloads' = [id \in (DOMAIN downloads) \ cleaned |-> downloads[id]]
    /\ cancel_tokens' = cancel_tokens \ cleaned
    /\ download_files' = download_files \ cleaned
    /\ response' = Reply("cleanup", "none", 200, "Cleaned up")
    /\ stream' = detach(cleaned)
    /\ UNCHANGED <<sidecars, task, uuids, train_vars, tb_vars>>

----------------------------------------------------------------------------
(* stream_download_progress: the server-sent event stream of one session *)

(* lines 1663-1667 and 1697-1705: the handler returns the response whose   *)
(* body is event_generator().  A client asks for an id it was given, or    *)
(* for one that no request of this run will be given.                      *)
stream_download_progress(id) ==
    /\ stream.pc = "idle"
    /\ id \notin uuids
    /\ stream' = [NoStream EXCEPT !.id = id, !.pc = "start"]
    /\ UNCHANGED <<downloads, cancel_tokens, download_files, fs, sidecars, task,
                   response, uuids, train_vars, tb_vars>>

(* lines 1668-1688: one iteration of the loop, from its start or from the  *)
(* return of asyncio.sleep to the next suspension: the yield of an event   *)
(* or the sleep.  After the not-found event the generator only breaks.     *)
event_generator_poll ==
    /\ stream.pc \in {"start", "sleep"}
    /\ UNCHANGED <<downloads, cancel_tokens, download_files, fs, sidecars, task,
                   response, uuids, train_vars, tb_vars>>
    /\ IF ~Registered(stream.id)
       THEN stream' = [stream EXCEPT !.pc = "closed", !.seen = NoEvent,
                                     !.event = NotFoundEvent]
       ELSE LET download == downloads[stream.id]
                current_progress == download.progress
                data == DataEvent(download.status, current_progress)
            IN  IF current_progress # stream.last_progress \/ download.status \in Terminal
                THEN stream' = [stream EXCEPT !.pc = "yielded", !.seen = data, !.event = data]
                ELSE stream' = [stream EXCEPT !.pc = "sleep", !.seen = data]

(* lines 1689-1695: the generator is resumed after its yield, once the     *)
(* response has sent the event; it reads the status again from the dict it *)
(* holds.                                                                  *)
event_generator_resume ==
    /\ stream.pc = "yielded"
    /\ UNCHANGED <<downloads, cancel_tokens, download_files, fs, sidecars, task,
                   response, uuids, train_vars, tb_vars>>
    /\ LET status == IF Registered(stream.id) THEN downloads[stream.id].status
                     ELSE stream.held
       IN  stream' = [stream EXCEPT !.last_progress = stream.seen.progress,
                                    !.held = "",
                                    !.pc = IF status \in Terminal THEN "closed" ELSE "sleep"]

----------------------------------------------------------------------------
Next ==
    \/ \E id \in DownloadIds : download_from_civitai(id, OwnPath(id))
    \/ \E id \in DownloadIds : download_from_huggingface(id, OwnPath(id))
    \/ \E id \in DownloadIds : download_civitai_model_start(id)
    \/ \E id \in DownloadIds : download_model_chunk(id)
    \/ \E id \in DownloadIds : download_model_finish(id)
    \/ \E id \in DownloadIds : download_civitai_model_post(id)
    \/ \E id \in DownloadIds : download_huggingface_file_start(id)
    \/ \E id \in DownloadIds : download_huggingface_file_response(id)
    \/ \E id \in DownloadIds : download_huggingface_file_chunk(id)
    \/ \E id \in DownloadIds : cancel_download(id)
    \/ \E id \in DownloadIds : delete_download(id)
    \/ cleanup_failed_downloads

Spec == Init /\ [][Next]_vars

----------------------------------------------------------------------------
(* Two HuggingFace requests for the same repository file: both sessions    *)
(* are given output_path / file (line 929) of the same name.               *)

SharedPath == "models/a"

InitShared ==
    /\ downloads = [x \in {} |-> 0]
    /\ cancel_tokens = {}
    /\ download_files = {}
    /\ fs = [p \in OutputPaths |-> NoFile]
    /\ sidecars = [x \in {} |-> 0]
    /\ task = [id \in DownloadIds |-> NoTask]
    /\ response = [op |-> "none", id |-> "none", code |-> 0, ack |-> ""]
    /\ uuids = DownloadIds
    /\ stream = NoStream
    /\ InitRuns
    /\ InitMetrics

NextShared ==
    \/ \E id \in DownloadIds : download_from_huggingface(id, SharedPath)
    \/ \E id \in DownloadIds : download_huggingface_file_start(id)
    \/ \E id \in DownloadIds : download_huggingface_file_response(id)
    \/ \E id \in DownloadIds : download_huggingface_file_chunk(id)
    \/ \E id \in DownloadIds : cancel_download(id)
    \/ \E id \in DownloadIds : delete_download(id)
    \/ cleanup_failed_downloads

SpecShared == InitShared /\ [][NextShared]_vars

----------------------------------------------------------------------------
(* One download and one client of its progress stream *)

NextStream ==
    \/ \E id \in DownloadIds : download_from_civitai(id, OwnPath(id))
    \/ \E id \in DownloadIds : download_from_huggingface(id, OwnPath(id))
    \/ \E id \in DownloadIds : download_civitai_model_start(id)
    \/ \E id \in DownloadIds : download_model_chunk(id)
    \/ \E id \in DownloadIds : download_model_finish(id)
    \/ \E id \in DownloadIds : download_civitai_model_post(id)
    \/ \E id \in DownloadIds : download_huggingface_file_start(id)
    \/ \E id \in DownloadIds : download_huggingface_file_response(id)
    \/ \E id \in DownloadIds : download_huggingface_file_chunk(id)
    \/ \E id \in DownloadIds : cancel_download(id)
    \/ \E id \in DownloadIds : delete_download(id)
    \/ cleanup_failed_downloads
    \/ \E id \in DownloadIds : stream_download_progress(id)
    \/ event_generator_poll
    \/ event_generator_resume

SpecStream == Init /\ [][NextStream]_vars

----------------------------------------------------------------------------
(* Training runs: api_train_start, api_train_stop (handlers declared with  *)
(* def, run on worker threads) and the _stream_process reader thread.      *)
(* Threads interleave between any two statements, so a handler is one      *)
(* action per access to the state it shares with another thread.           *)

download_vars == <<downloads, cancel_tokens, download_files, fs, sidecars, task, uuids,
                   stream>>

(* server.py lines 2659-2712; a run is started once *)
api_train_start(r) ==
    /\ procs[r].state = "none"
    /\ procs' = [procs EXCEPT ![r] = [NoProcess EXCEPT !.state = "running"]]
    /\ RUNS' = [RUNS EXCEPT ![r] = [status |-> "running", proc |-> TRUE]]
    /\ threads' = [threads EXCEPT ![r].reader = "reading"]
    /\ response' = Reply("start", r, 200, "")
    /\ UNCHANGED <<download_vars, tb_vars>>

(* the training script ends: by itself with 0 or 1, or on the SIGTERM it   *)
(* was sent; its end closes the pipe the reader thread reads               *)
process_exit(r) ==
    /\ procs[r].state = "running"
    /\ \E code \in ReturnCodes :
         /\ (code = -15) => procs[r].signalled
         /\ procs' = [procs EXCEPT ![r].state = "exited", ![r].returncode = code]
    /\ UNCHANGED <<download_vars, tb_vars, RUNS, threads, response>>

(* _stream_process lines 2650-2652: readline returns "" at the end of the  *)
(* output, proc.wait() collects the child                                  *)
stream_process_wait(r) ==
    /\ threads[r].reader = "reading" /\ procs[r].state = "exited"
    /\ procs' = [procs EXCEPT ![r].state = "reaped"]
    /\ threads' = [threads EXCEPT ![r].reader = "waited"]
    /\ UNCHANGED <<download_vars, tb_vars, RUNS, response>>

(* _stream_process lines 2653-2654 *)
stream_process_status(r) ==
    /\ threads[r].reader = "waited"
    /\ RUNS' = [RUNS EXCEPT ![r].status =
                  IF procs[r].returncode = 0 THEN "finished"
                  ELSE ErrorStatus(procs[r].returncode)]
    /\ threads' = [threads EXCEPT ![r].reader = "done"]
    /\ UNCHANGED <<download_vars, tb_vars, procs, response>>

(* api_train_stop lines 2716-2727: os.getpgid raises ProcessLookupError    *)
(* once the child was collected; a child that has exited but was not yet   *)
(* collected still takes the signal, without effect                        *)
api_train_stop_signal(r) ==
    /\ threads[r].stop = "idle"
    /\ UNCHANGED <<download_vars, tb_vars, RUNS>>
    /\ IF ~RUNS[r].proc
       THEN /\ response' = Reply("stop", r, 200, "no process")
            /\ UNCHANGED <<procs, threads>>
       ELSE IF procs[r].state = "reaped"
       THEN /\ response' = Reply("stop", r, 200, "ProcessLookupError")
            /\ UNCHANGED <<procs, threads>>
       ELSE /\ procs' = [procs EXCEPT ![r].signalled = TRUE]
            /\ threads' = [threads EXCEPT ![r].stop = "signalled"]
            /\ response' = Reply("stop", r, 200, "signalled")

(* api_train_stop lines 2728-2729 *)
api_train_stop_status(r) ==
    /\ threads[r].stop = "signalled"
    /\ RUNS' = [RUNS EXCEPT ![r].status = "stopping"]
    /\ threads' = [threads EXCEPT ![r].stop = "idle"]
    /\ response' = Reply("stop", r, 200, "")
    /\ UNCHANGED <<download_vars, tb_vars, procs>>

(* lines 2758-2771: the runs api_train_active lists *)
api_train_active ==
    {r \in RunIds : RUNS[r].status \in {"prepared", "running", "stopping"}}

NextTrain ==
    \/ \E r \in RunIds : api_train_start(r)
    \/ \E r \in RunIds : process_exit(r)
    \/ \E r \in RunIds : stream_process_wait(r)
    \/ \E r \in RunIds : stream_process_status(r)
    \/ \E r \in RunIds : api_train_stop_signal(r)
    \/ \E r \in RunIds : api_train_stop_status(r)

SpecTrain == Init /\ [][NextTrain]_vars

----------------------------------------------------------------------------
(* TensorBoardMetricsReader.stream_metrics over the scalars of one run *)

(* the training script logs the scalars of its next k steps *)
trainer_log ==
    /\ \E k \in 1..(MaxSteps - logged) : logged' = logged + k
    /\ UNCHANGED <<download_vars, train_vars, response, tb>>

(* tensorboard_metrics.py lines 89-110: the accumulator is loaded when     *)
(* there is none or the last load is more than _reload_interval old        *)
(* (reload), and only when an event file exists; ea is the number of steps *)
(* the accumulator holds                                                   *)
get_accumulator(ea, reload) ==
    IF ea = -1 \/ reload THEN (IF logged = 0 THEN -1 ELSE logged) ELSE ea

(* lines 128-188: the points sorted by step, cut to the last lim ones *)
get_recent_metrics(ea, lim) ==
    LET metrics == IF ea = -1 THEN <<>> ELSE Steps(ea) IN
    IF lim > 0 /\ Len(metrics) > lim
    THEN SubSeq(metrics, Len(metrics) - lim + 1, Len(metrics))
    ELSE metrics

(* lines 207-209: the generator is suspended in the yield of the metric *)
yield_metric(ea, new_metrics) ==
    [tb EXCEPT !.pc = "yield", !.ea = ea,
               !.emitted = Append(tb.emitted, Head(new_metrics)),
               !.new_metrics = Tail(new_metrics)]

(* lines 214-215: the generator is suspended in the yield of the heartbeat *)
yield_heartbeat(ea) == [tb EXCEPT !.pc = "heartbeat", !.ea = ea, !.new_metrics = <<>>]

(* lines 200-209: from the first next() or from the heartbeat, through     *)
(* time.sleep(1.0), to the next yield                                      *)
stream_metrics_poll ==
    /\ tb.pc \in {"start", "heartbeat"}
    /\ \E reload \in BOOLEAN :
         LET ea == get_accumulator(tb.ea, reload)
             metrics == get_recent_metrics(ea, limit)
             new_metrics == SelectSeq(metrics, LAMBDA m : m > tb.last_step)
         IN  tb' = IF new_metrics = <<>> THEN yield_heartbeat(ea)
                   ELSE yield_metric(ea, new_metrics)
    /\ UNCHANGED <<download_vars, train_vars, response, logged>>

(* lines 209-215: resumed after the yield of a metric *)
stream_metrics_resume ==
    /\ tb.pc = "yield"
    /\ LET metric == tb.emitted[Len(tb.emitted)]
           last_step == IF metric > tb.last_step THEN metric ELSE tb.last_step
           resumed == [tb EXCEPT !.last_step = last_step]
       IN  tb' = IF tb.new_metrics = <<>>
                 THEN [resumed EXCEPT !.pc = "heartbeat"]
                 ELSE [resumed EXCEPT !.pc = "yield",
                                      !.emitted = Append(tb.emitted, Head(tb.new_metrics)),
                                      !.new_metrics = Tail(tb.new_metrics)]
    /\ UNCHANGED <<download_vars, train_vars, response, logged>>

NextMetrics ==
    \/ trainer_log
    \/ stream_metrics_poll
    \/ stream_metrics_resume

SpecMetrics == Init /\ [][NextMetrics]_vars

----------------------------------------------------------------------------
(* Properties *)

Civitai(id) == task[id].kind = "civitai"

HuggingFace(id) == task[id].kind = "hf"

(* the execution task saw its cancellation token set and stopped *)
CancelObserved(id) == task[id].exc = CancelledByUser

Finished(id) == task[id].pc = "done"

(* download_model returned normally *)
Succeeded(id) == Civitai(id) /\ task[id].pc \in {"post", "done"} /\ task[id].exc = NoErr

StatusIs(id, status) == Registered(id) /\ downloads[id].status = status

(* C1: a session whose task stopped on its cancellation token ends in      *)
(* status 'cancelled', never 'error', on the CivitAI and the HuggingFace   *)
(* path.                                                                   *)
C1_CancelEndsCancelled ==
    \A id \in DownloadIds :
        (Finished(id) /\ CancelObserved(id) /\ Registered(id))
            => downloads[id].status = "cancelled"

C3_FailedResumeRestarts ==
    \A id \in DownloadIds :
        (Civitai(id) /\ task[id].mode # "" /\ task[id].resume_status \notin {0, 206})
            => /\ task[id].resume_pos = 0
               /\ task[id].mode = "wb"
               /\ (task[id].pc = "close" /\ task[id].exc = NoErr /\ task[id].body = <<>>)
                     => FileOf(id).data = Remote

(* C4: a session in status 'completed' whose total size was known has a    *)
(* file of exactly that size and a byte counter equal to it.               *)
C4_CompletedSizeMatches ==
    \A id \in DownloadIds :
        (StatusIs(id, "completed") /\ task[id].total_size # 0)
            => /\ FileOf(id).exists
               /\ Len(FileOf(id).data) = task[id].total_size
               /\ task[id].downloaded = task[id].total_size

C4_Witness ==
    \E id \in DownloadIds :
        /\ StatusIs(id, "completed") /\ task[id].total_size = TotalBytes
        /\ Len(task[id].wire) = TotalBytes
        /\ FileOf(id).data = Remote

(* C5: a resume confirmed with 206 from a partial file of k bytes reads    *)
(* only bytes at offsets >= k, appends them after the k bytes on disk, and *)
(* a resumed download that succeeds has read exactly total - k bytes and   *)
(* left a file of the total size.                                          *)
C5_ResumeReadsOnlyTheRest ==
    \A id \in DownloadIds :
        (Civitai(id) /\ task[id].resume_status = 206 /\ task[id].mode # "")
            => LET k == task[id].resume_pos
                   w == task[id].wire
               IN  /\ k \in 1..(task[id].total_size - 1)
                   /\ w = SubSeq(Remote, k + 1, k + Len(w))
                   /\ FileOf(id) = File(Prefix(Remote, k) \o w)
                   /\ Succeeded(id) => /\ Len(w) = task[id].total_size - k
                                       /\ Len(FileOf(id).data) = task[id].total_size

C5_Witness ==
    \E id \in DownloadIds :
        /\ Succeeded(id) /\ task[id].resume_status = 206
        /\ task[id].resume_pos = 1
        /\ Len(task[id].wire) = TotalBytes - 1
        /\ FileOf(id).data = Remote

Transient(e) == e.code = 429 \/ e.msg \in {"urlopen error", "ClientError"}

(* C6: a transient transport failure (429, timeout, connection error) is   *)
(* retried; it becomes the terminal 'error' of a session only after the    *)
(* bounded number of attempts is used up.                                  *)
C6_TransientFailuresRetried ==
    \A id \in DownloadIds :
        (StatusIs(id, "error") /\ Transient(downloads[id].error))
            => task[id].attempts = MAX_RETRIES + 1

(* C7: a cancel request for a session in a non-terminal status (pending,   *)
(* downloading or resuming) is accepted and sets the session's token.      *)
C7_CancelAcceptedWhenActive ==
    [][\A id \in DownloadIds :
         (cancel_download(id) /\ Registered(id)
            /\ downloads[id].status \in {"pending", "downloading", "resuming"})
           => (response'.code = 200 /\ task'[id].cancel_event
               /\ downloads'[id].status = "cancelling")]_vars

(* C8: a cancel request for a session already cancelling or terminal is an *)
(* acknowledged no-op: no error reply, record, token table and file        *)
(* unchanged.                                                              *)
C8_CancelIdempotent ==
    [][\A id \in DownloadIds :
         (cancel_download(id) /\ Registered(id)
            /\ downloads[id].status \in Terminal \cup {"cancelling"})
           => (response'.code = 200 /\ UNCHANGED <<downloads, cancel_tokens, fs>>)]_vars

(* error classes for which a resume cannot succeed *)
AuthOrParse(e) ==
    \/ e.code = 401
    \/ e.msg \in {"Could not parse model or version ID from URL",
                  "Failed to get model details", "Authentication required"}

(* C9: the step that ends a session in 'error' deletes the partial file    *)
(* the session has been writing if and only if the error class is          *)
(* authentication or parse/resolution; for every other class the file is   *)
(* left as it was.                                                         *)
C9_ErrorKeepsFileUnlessAuthOrParse ==
    [][\A id \in DownloadIds :
         (Registered(id) /\ id \in DOMAIN downloads' /\ task[id].mode # ""
            /\ downloads[id].status # "error" /\ downloads'[id].status = "error")
           => IF AuthOrParse(downloads'[id].error)
              THEN ~fs'[task[id].output_path].exists
              ELSE fs'[task[id].output_path] = FileOf(id)]_vars

ErrorClass(e) ==
    CASE e.msg = "Authentication required" -> "AuthRequired"
      [] e.msg = "Access forbidden" -> "Forbidden"
      [] e.msg \in {"Model not found", "File not found"} -> "NotFound"
      [] e.msg = "Rate limited" -> "RateLimited"
      [] e.msg \in {"HTTP error", "HTTP Error", "Download failed with status"} -> "TransportError"
      [] OTHER -> "Other"

ExpectedClass(code) ==
    CASE code = 401 -> "AuthRequired"
      [] code = 403 -> "Forbidden"
      [] code = 404 -> "NotFound"
      [] code = 429 -> "RateLimited"
      [] OTHER -> "TransportError"

(* C10: a final HTTP status 401, 403, 404 or 429 fails the transport step  *)
(* with its own distinct error, any other non-2xx status with the generic  *)
(* transport error carrying the status code.                               *)
C10_DistinctHttpErrors ==
    \A id \in DownloadIds :
        (Civitai(id) /\ StatusIs(id, "error") /\ downloads[id].error.code # 0)
            => ErrorClass(downloads[id].error) = ExpectedClass(downloads[id].error.code)

(* a step that shows observers a new status of session id, other than a   *)
(* failure or a cancellation                                               *)
StatusAdvances(id) ==
    /\ Registered(id) /\ id \in DOMAIN downloads'
    /\ downloads'[id].status # downloads[id].status
    /\ downloads'[id].status \notin {"error", "cancelled", "cancelling"}

(* the session starts at offset 0 and no cancellation was requested *)
FreshUncancelled(id) == task'[id].resume_pos = 0 /\ ~task'[id].cancel_event

ChainStep(chain, from, to) ==
    \E i \in 1..(Len(chain) - 1) : chain[i] = from /\ chain[i + 1] = to

C12_ResumingReturnsToDownloading ==
    [][\A id \in DownloadIds :
         (Registered(id) /\ id \in DOMAIN downloads'
            /\ downloads[id].status # "completed" /\ downloads'[id].status = "completed")
           => downloads[id].status # "resuming"]_vars

(* C13: the progress values published for a session never decrease, on a  *)
(* fresh start, on a confirmed resume and on a failed resume that restarts *)
(* from zero, for every sequence of chunks.                                *)
C13_ProgressMonotone ==
    [][\A id \in DownloadIds :
         (Registered(id) /\ id \in DOMAIN downloads')
           => downloads'[id].progress >= downloads[id].progress]_vars

(* a confirmed resume whose published progress rose above the resume offset *)
C13_Witness ==
    \E id \in DownloadIds :
        /\ StatusIs(id, "resuming") /\ task[id].resume_status = 206
        /\ task[id].pc = "write"
        /\ downloads[id].progress > RoundTenths(task[id].resume_pos, task[id].total_size)
        /\ downloads[id].progress < 1000

(* C15: every session that completed successfully has an integrity record *)
(* next to its artifact once its task has ended, whatever the preview and  *)
(* metadata fetches did.                                                   *)
C15_CompletedHasIntegrityRecord ==
    \A id \in DownloadIds :
        (Finished(id) /\ StatusIs(id, "completed"))
            => task[id].output_path \in DOMAIN sidecars

HasNoIdentifier(url) == url \in {"unparsable", "external"}

(* the step in which the task of CivitAI session id runs download_model up *)
(* to its first suspension or failure                                      *)
ResolutionStep(id) ==
    /\ Civitai(id) /\ Registered(id)
    /\ task[id].pc = "queued" /\ task'[id].pc # "queued"

FailsBeforeAnyRequest(id) ==
    /\ ContainsParse(task'[id].exc)
    /\ task'[id].attempts = 0
    /\ task'[id].mode = ""
    /\ fs' = fs
    /\ downloads'[id].status = "error" /\ ContainsParse(downloads'[id].error)

(* C20 as stated: whenever no model or version id can be extracted from    *)
(* the URL, the download fails with the resolution error before a request  *)
(* is sent and before any file is created or modified.                     *)
C20_NoIdentifierFailsBeforeRequest ==
    [][\A id \in DownloadIds :
         (ResolutionStep(id) /\ HasNoIdentifier(task'[id].url))
           => FailsBeforeAnyRequest(id)]_vars

(* C20 amended: a civitai.com page URL from which no model or version id   *)
(* can be extracted fails with the resolution error before a request is    *)
(* sent and before any file is created or modified; a URL of another host  *)
(* or a direct download link is requested as it is, ids or not.            *)
C20_UnparsablePageFailsBeforeRequest ==
    [][\A id \in DownloadIds :
         (ResolutionStep(id) /\ task'[id].url = "unparsable")
           => FailsBeforeAnyRequest(id)]_vars

C20_Witness ==
    \E id \in DownloadIds :
        /\ task[id].url = "unparsable" /\ Finished(id)
        /\ StatusIs(id, "error") /\ ContainsParse(downloads[id].error)
        /\ FileOf(id) = File(Prefix(Remote, 1))

(* the task of session id holds its output file open for writing *)
Writing(id) == task[id].pc \in {"open", "write", "close", "stream"}

(* C14: no two sessions hold the same output path open for writing at the  *)
(* same time.                                                              *)
C14_ExclusiveWriters ==
    \A a, b \in DownloadIds :
        (a # b /\ Writing(a) /\ Writing(b))
            => task[a].output_path # task[b].output_path

(* C19: bulk cleanup removes exactly the sessions in status 'error' or     *)
(* 'cancelled' (record, token, tracked file entry, and the partial file    *)
(* when its path is recorded) and leaves every other session, its token,   *)
(* its tracked file entry and its file unchanged.                          *)
C19_CleanupRemovesExactlyFailed ==
    [][cleanup_failed_downloads =>
         \A id \in DOMAIN downloads :
            IF downloads[id].status \in {"error", "cancelled"}
            THEN /\ id \notin DOMAIN downloads'
                 /\ id \notin cancel_tokens' /\ id \notin download_files'
                 /\ downloads[id].file_path => ~fs'[task[id].output_path].exists
            ELSE /\ id \in DOMAIN downloads' /\ downloads'[id] = downloads[id]
                 /\ (id \in cancel_tokens') = (id \in cancel_tokens)
                 /\ (id \in download_files') = (id \in download_files)
                 /\ fs'[task[id].output_path] = FileOf(id)]_vars

(* C17: whatever an iteration of the stream read from the record, status  *)
(* and progress, is what the last emitted event carries: an iteration that *)
(* finds either changed emits a new event.                                 *)
C17_ChangeEmitsEvent ==
    (stream.pc \in {"yielded", "sleep", "closed"} /\ stream.seen # NoEvent)
        => stream.event = stream.seen

FinalEvent(e) == e = NotFoundEvent \/ e.status \in Terminal

(* C18: a stream that has closed has emitted a final event last, carrying  *)
(* the terminal status of its session or 'Download not found'; the final   *)
(* event is the last thing it emits, and it closes only when the session   *)
(* is terminal or no longer registered.                                    *)
C18_StreamClosesAfterFinalEvent ==
    /\ stream.pc = "closed" => FinalEvent(stream.event)
    /\ FinalEvent(stream.event) => stream.pc \in {"yielded", "closed"}
    /\ stream.pc = "closed"
          => (~Registered(stream.id) \/ downloads[stream.id].status \in Terminal)

(* C21: the output file is opened in append mode only when a confirmed     *)
(* range resume is in effect; a session that found a file but sent no      *)
(* range request opens it truncating and counts from 0.                    *)
C21_AppendOnlyWhenResuming ==
    \A id \in DownloadIds :
        (Civitai(id) /\ task[id].mode # "" /\ task[id].resume_status = 0)
            => (task[id].mode = "wb" /\ task[id].resume_pos = 0)

(* after the step the counter of session id equals the size of its file,  *)
(* and the step did not shrink a file the session had already opened       *)
CounterTracksFile(id) ==
    /\ fs'[task'[id].output_path].exists
    /\ Len(fs'[task'[id].output_path].data) = task'[id].downloaded
    /\ task[id].mode # "" => Len(fs'[task'[id].output_path].data) >= Len(FileOf(id).data)

StartsRead(id) ==
    \/ /\ Civitai(id) /\ task[id].pc \in {"open", "write"}
       /\ task'[id].pc \in {"write", "close"}
       /\ task'[id] # task[id]
       /\ task'[id].exc \notin {CancelledByUser, KeyError}
    \/ /\ HuggingFace(id) /\ task'[id].pc = "stream"
       /\ (task[id].pc = "get" \/ task'[id].downloaded > task[id].downloaded)

LastChunkWritten(id) ==
    /\ Civitai(id) /\ task[id].pc = "write" /\ task[id].body = <<>>
    /\ task[id].total_size # 0 /\ Registered(id)

(* C24, second half: the 'downloading' update for the last chunk of a      *)
(* CivitAI transfer is always published, whatever time has passed since    *)
(* the previous update.                                                    *)
C24_LastChunkPublished ==
    [][\A id \in DownloadIds :
         (LastChunkWritten(id) /\ task'[id] # task[id])
           => downloads'[id].progress
                = RoundTenths(task[id].downloaded, task[id].total_size)]_vars

(* C25: in every state in which the record of a session reads 'completed' *)
(* the integrity sidecar of its artifact has already been written.         *)
C25_CompletedImpliesSidecarWritten ==
    \A id \in DownloadIds :
        (StatusIs(id, "completed") /\ (Civitai(id) \/ HuggingFace(id)))
            => task[id].output_path \in DOMAIN sidecars

(* the task of the session is inside its chunk loop *)
Transferring(id) ==
    \/ Civitai(id) /\ task[id].pc \in {"open", "write"}
    \/ HuggingFace(id) /\ task[id].pc = "stream"

(* C26: while the task of a session transfers chunks, the session has a    *)
(* record in downloads and a token in cancel_tokens, so it can be observed *)
(* and cancelled.                                                          *)
C26_TransferringIsRegistered ==
    \A id \in DownloadIds :
        Transferring(id) => (Registered(id) /\ id \in cancel_tokens)

(* C27: 'completed', 'error' and 'cancelled' are absorbing: no step        *)
(* changes the status of a record that holds one of them, and such a       *)
(* record leaves the table only through delete_download or                 *)
(* cleanup_failed_downloads.                                               *)
C27_TerminalStatusAbsorbing ==
    [][\A id \in DownloadIds :
         (Registered(id) /\ downloads[id].status \in Terminal)
           => IF id \in DOMAIN downloads'
              THEN downloads'[id].status = downloads[id].status
              ELSE /\ response'.code = 200
                   /\ \/ response'.op = "delete" /\ response'.id = id
                      \/ response'.op = "cleanup" /\ downloads[id].status # "completed"]_vars

(* a cancel request met a session already 'completed' whose task was still *)
(* in its post-download steps, token registered                            *)
C27_Witness ==
    \E id \in DownloadIds :
        /\ StatusIs(id, "completed") /\ task[id].pc = "post" /\ id \in cancel_tokens
        /\ response = Reply("cancel", id, 400, "Download cannot be cancelled")

(* C28: the progress stored in a record lies between 0 and 100 percent    *)
(* (0..1000 tenths), whatever the size of the file found at the output     *)
(* path, the total size and the answer to the range request.               *)
C28_ProgressWithinBounds ==
    \A id \in DOMAIN downloads :
        downloads[id].progress >= 0 /\ downloads[id].progress <= 1000

(* C29: a run whose process has exited and been collected, and whose stop  *)
(* request has returned, is not left in 'stopping': its status is          *)
(* 'finished' or 'error:<code>' and api_train_active no longer lists it.   *)
C29_StoppedRunBecomesTerminal ==
    \A r \in RunIds :
        (threads[r].reader = "done" /\ threads[r].stop = "idle")
            => (r \notin api_train_active /\ RUNS[r].status # "stopping")

(* C30: the steps a metrics stream has emitted are strictly increasing and *)
(* without a gap: after its first step the stream emits every logged step, *)
(* however many steps were logged between two polls.                       *)
C30_EveryStepEmittedOnce ==
    \A i \in 1..(Len(tb.emitted) - 1) : tb.emitted[i + 1] = tb.emitted[i] + 1

====
